---- MODULE Spec2Model ----
(***************************************************************************)
(* Model of the math-predictor-service core: the Kelly stake sizer          *)
(* (app/core/kelly.py), the statistical, fuzzy and hybrid probability       *)
(* engines (app/core/stat_engine.py, fuzzy_engine.py, hybrid_engine.py),    *)
(* the backtest loop (app/core/backtester.py) and the /predict,             *)
(* /upload-data and /backtest handlers (app/main.py).                       *)
(*                                                                          *)
(* Numbers.  A Python float x is modelled by the integer x * S (S = 10^4):  *)
(* 0.52 is 5200, odds 2.0 is 20000, a bankroll of 7000.0 is 70000000.       *)
(* Products and quotients are rounded to this resolution, except            *)
(* in calculate_stake, whose two round() calls are decided on the exact     *)
(* rational value.  Where the exact value lies half way between two         *)
(* roundings the binary float may fall on either side, and both results     *)
(* are possible outcomes of the model.                                      *)
(***************************************************************************)
EXTENDS Integers, Sequences, FiniteSets, TLC

VARIABLES
    rows,            \* the dataset: the csv.DictReader rows, in file order
    idx,             \* index of the next row the loop will read
    initial_bankroll,
    bankroll,
    equity_curve,
    total_bets,
    winning_bets,
    status,          \* "idle" | "running" | "returned" | "raised"
    exc,             \* the exception that escaped run_backtest, or "none"
    result,          \* the returned dict, or NoResult
    last,            \* what the loop body did with the row it read last
    call,            \* the last call or request: its arguments and result
    uploaded_data,   \* main.py's global: the path of the last accepted upload
    files,           \* the data directory: path -> content of the files in it
    pending,         \* per caller, the upload whose `await file.read()` is outstanding
    last_upload      \* history: the content of the most recent accepted upload

vars == <<rows, idx, initial_bankroll, bankroll, equity_curve, total_bets,
          winning_bets, status, exc, result, last, call,
          uploaded_data, files, pending, last_upload>>

svcVars == <<uploaded_data, files, pending, last_upload>>

runVars == <<rows, idx, initial_bankroll, bankroll, equity_curve, total_bets,
             winning_bets, status, exc, result, last>>

\* uploaded_data = None
NoPath == <<>>

\* The clients of the service.
Callers == {"c1", "c2"}

NoRequest == [filename |-> <<>>, content |-> [kind |-> "none", size |-> 0, rows |-> <<>>]]

\* The service has just started: nothing uploaded, no request in progress.
ServiceIdle ==
    /\ uploaded_data = NoPath
    /\ files = <<>>
    /\ pending = [c \in Callers |-> NoRequest]
    /\ last_upload = NoRequest.content

\* The fixed-point unit: the integer that stands for the float 1.0.
S == 100 * 100

Abs(x) == IF x < 0 THEN -x ELSE x

Max2(x, y) == IF x >= y THEN x ELSE y

Min2(x, y) == IF x <= y THEN x ELSE y

Clamp(x, lo, hi) == Max2(lo, Min2(x, hi))

\* Float product x * y of two fixed-point numbers, to the nearest unit. The
\* product is split so that no intermediate value leaves 32 bits for |y| <= 20.
Mul(x, y) == (x \div S) * y + (((x % S) * y + (S \div 2)) \div S)

\* Float quotient x / y of two fixed-point numbers, y # 0, to the nearest unit.
Div(x, y) ==
    IF y > 0 THEN (x * S + (y \div 2)) \div y
    ELSE ((-x) * S + ((-y) \div 2)) \div (-y)

\* The exception a call raised ("none": it returned v).
Ok(v) == [exc |-> "none", v |-> v]

Raise(e) == [exc |-> e, v |-> <<>>]

\* <<q, r>> with a * b = q * c + r and 0 <= r < c, for a, b >= 0 and c > 0,
\* computed by doubling so that no intermediate value exceeds 3 * c.
RECURSIVE MulDivQR(_, _, _)
MulDivQR(a, b, c) ==
    IF b = 0 THEN <<0, 0>>
    ELSE LET h == MulDivQR(a, b \div 2, c)
             odd == (b % 2 = 1)
             t == 2 * h[2] + (IF odd THEN a % c ELSE 0)
         IN  << 2 * h[1] + (IF odd THEN a \div c ELSE 0) + (t \div c), t % c >>

(***************************************************************************)
(* app/core/kelly.py                                                        *)
(***************************************************************************)

\* The cap of the live code path: min(kelly, 0.05).
KellyCap == 500

\* max(0, full_kelly * kelly_fraction) as an exact value (q + r/c) / S, where
\* full_kelly = num / (S * b).
KellyScaled(num, b, kelly_fraction) ==
    LET c == S * b
        positive == (num > 0 /\ kelly_fraction > 0) \/ (num < 0 /\ kelly_fraction < 0)
        qr == IF positive THEN MulDivQR(Abs(num), Abs(kelly_fraction), c) ELSE <<0, 0>>
    IN  [q |-> qr[1], r |-> qr[2], c |-> c]

\* min(kelly, 0.05)
KellyCapped(k) == IF k.q >= KellyCap THEN [q |-> KellyCap, r |-> 0, c |-> k.c] ELSE k

\* round(kelly_capped, 4): the possible results, in units of 1/S.
RoundKelly(k) ==
    IF 2 * k.r < k.c THEN {k.q}
    ELSE IF 2 * k.r > k.c THEN {k.q + 1}
    ELSE {k.q, k.q + 1}

\* round(bankroll * kelly_capped, 2): the possible results, for bankroll >= 0.
\* The exact stake is I + (u + r1/c) / S fixed-point units; a cent is S / 100.
RoundStake(bankroll_, k) ==
    LET a == MulDivQR(bankroll_, k.q, S)
        f == MulDivQR(bankroll_, k.r, k.c)
        U == a[2] + f[1]
        I == a[1] + (U \div S)
        u == U % S
        cent == S \div 100
        lo == (I \div cent) * cent
        i == I % cent
        half == cent \div 2
        frac == (u > 0 \/ f[2] > 0)
    IN  IF i < half THEN {lo}
        ELSE IF i > half \/ frac THEN {lo + cent}
        ELSE {lo, lo + cent}

calculate_stake_rounding_lost(probability, odds, bankroll_, kelly_fraction) ==
    IF probability <= 0 \/ probability >= S THEN {<<0, 0>>}
    ELSE IF odds <= S THEN {<<0, 0>>}
    ELSE LET b == odds - S
             q == S - probability
             k == KellyCapped(KellyScaled(probability * b - q * S, b, kelly_fraction))
             a == MulDivQR(bankroll_, k.q, S)
         IN  {<<k.q, a[1]>>}

calculate_stake_cap25(probability, odds, bankroll_, kelly_fraction) ==
    IF probability <= 0 \/ probability >= S THEN {<<0, 0>>}
    ELSE IF odds <= S THEN {<<0, 0>>}
    ELSE LET b == odds - S
             q == S - probability
             k0 == KellyScaled(probability * b - q * S, b, kelly_fraction)
             k == IF k0.q >= 2500 THEN [q |-> 2500, r |-> 0, c |-> k0.c] ELSE k0
         IN  RoundKelly(k) \X RoundStake(bankroll_, k)

\* calculate_stake(probability, odds, bankroll, kelly_fraction): the set of
\* pairs <<kelly_fraction_value, stake>> the call may return.
calculate_stake(probability, odds, bankroll_, kelly_fraction) ==
    IF probability <= 0 \/ probability >= S THEN {<<0, 0>>}
    ELSE IF odds <= S THEN {<<0, 0>>}
    ELSE LET b == odds - S
             q == S - probability
             k == KellyCapped(KellyScaled(probability * b - q * S, b, kelly_fraction))
         IN  RoundKelly(k) \X RoundStake(bankroll_, k)

(***************************************************************************)
(* app/core/stat_engine.py                                                  *)
(***************************************************************************)

\* math.exp(-lambda_) at the goal averages of the model's inputs.
ExpNeg(lambda_) ==
    CASE lambda_ = 1000 -> 9048   [] lambda_ = 1150 -> 8914
      [] lambda_ = 5000 -> 6065   [] lambda_ = 5750 -> 5627
      [] lambda_ = 12000 -> 3012  [] lambda_ = 13800 -> 2516
      [] lambda_ = 15000 -> 2231  [] lambda_ = 17250 -> 1782
      [] lambda_ = 30000 -> 498   [] lambda_ = 34500 -> 317

RECURSIVE Factorial(_)
Factorial(k) == IF k = 0 THEN 1 ELSE k * Factorial(k - 1)

\* lambda_ ** k
RECURSIVE Pow(_, _)
Pow(lambda_, k) == IF k = 0 THEN S ELSE Mul(Pow(lambda_, k - 1), lambda_)

poisson_probability(k, lambda_) ==
    IF lambda_ <= 0 THEN 0
    ELSE Mul(Pow(lambda_, k), ExpNeg(lambda_)) \div Factorial(k)

calculate_home_advantage == 11500

\* The 6 x 6 double loop: the sum of P(home_goals) * P(away_goals) over the
\* cells n = 6 * home_goals + away_goals below `n` that `sel` selects.
RECURSIVE PoissonSum(_, _, _, _)
PoissonSum(n, adj_home_goals, away_goals_avg, sel) ==
    IF n = 0 THEN 0
    ELSE LET home_goals == (n - 1) \div 6
             away_goals == (n - 1) % 6
             cell == CASE home_goals > away_goals -> "home"
                       [] home_goals = away_goals -> "draw"
                       [] OTHER -> "away"
             p == IF cell = sel
                  THEN Mul(poisson_probability(home_goals, adj_home_goals),
                           poisson_probability(away_goals, away_goals_avg))
                  ELSE 0
         IN  PoissonSum(n - 1, adj_home_goals, away_goals_avg, sel) + p

\* Normalize a triple to sum to 1.0, uniform when the total is not positive.
Normalize3(t) ==
    LET total == t[1] + t[2] + t[3]
    IN  IF total > 0 THEN <<Div(t[1], total), Div(t[2], total), Div(t[3], total)>>
        ELSE <<Div(S, 3 * S), Div(S, 3 * S), Div(S, 3 * S)>>

Clamp01(t) == <<Clamp(t[1], 0, S), Clamp(t[2], 0, S), Clamp(t[3], 0, S)>>

stat_calculate_probability(home_goals_avg_, away_goals_avg_, home_win_rate_, away_win_rate_) ==
    LET home_goals_avg == Max2(1000, Min2(home_goals_avg_, 50000))
        away_goals_avg == Max2(1000, Min2(away_goals_avg_, 50000))
        home_win_rate == Max2(100, Min2(home_win_rate_, 9900))
        away_win_rate == Max2(100, Min2(away_win_rate_, 9900))
        adj_home_goals == Mul(home_goals_avg, calculate_home_advantage)
        p_home_poisson == PoissonSum(36, adj_home_goals, away_goals_avg, "home")
        p_draw_poisson == PoissonSum(36, adj_home_goals, away_goals_avg, "draw")
        p_away_poisson == PoissonSum(36, adj_home_goals, away_goals_avg, "away")
        draw_rate == Max2(1000, S - home_win_rate - away_win_rate)
        hybrid == Normalize3(<<Mul(6000, p_home_poisson) + Mul(4000, home_win_rate),
                               Mul(6000, p_draw_poisson) + Mul(4000, draw_rate),
                               Mul(6000, p_away_poisson) + Mul(4000, away_win_rate)>>)
        third == Mul(3000, Div(S, 3 * S))
    IN  Clamp01(<<Mul(7000, hybrid[1]) + third,
                  Mul(7000, hybrid[2]) + third,
                  Mul(7000, hybrid[3]) + third>>)

(***************************************************************************)
(* app/core/fuzzy_engine.py                                                 *)
(***************************************************************************)

triangular_membership(x, a, b, c) ==
    IF x <= a \/ x >= c THEN 0
    ELSE IF a < x /\ x <= b THEN (IF b > a THEN Div(x - a, b - a) ELSE 0)
    ELSE (IF c > b THEN Div(c - x, c - b) ELSE 0)

\* 1/odds_home + 1/odds_draw + 1/odds_away, or the ZeroDivisionError of a zero odd.
total_odds_inv(odds_home, odds_draw, odds_away) ==
    IF odds_home = 0 \/ odds_draw = 0 \/ odds_away = 0 THEN Raise("ZeroDivisionError")
    ELSE Ok(Div(S, odds_home) + Div(S, odds_draw) + Div(S, odds_away))

\* The implied probabilities (1/odds) / total, or the ZeroDivisionError of a
\* zero odd or of a zero total.
implied_probabilities(odds_home, odds_draw, odds_away) ==
    LET total == total_odds_inv(odds_home, odds_draw, odds_away)
    IN  IF total.exc # "none" THEN total
        ELSE IF total.v = 0 THEN Raise("ZeroDivisionError")
        ELSE Ok(<<Div(Div(S, odds_home), total.v),
                  Div(Div(S, odds_draw), total.v),
                  Div(Div(S, odds_away), total.v)>>)

fuzzify(home_goals, away_goals, odds_home, odds_draw, odds_away) ==
    LET implied == implied_probabilities(odds_home, odds_draw, odds_away)
    IN  IF implied.exc # "none" THEN implied
        ELSE Ok([home_goals |-> [low |-> triangular_membership(home_goals, 0, 5000, 15000),
                                 med |-> triangular_membership(home_goals, 10000, 15000, 25000),
                                 high |-> triangular_membership(home_goals, 20000, 30000, 50000)],
                 away_goals |-> [low |-> triangular_membership(away_goals, 0, 5000, 15000),
                                 med |-> triangular_membership(away_goals, 10000, 15000, 25000),
                                 high |-> triangular_membership(away_goals, 20000, 30000, 50000)],
                 prob |-> [low |-> triangular_membership(implied.v[1], 0, 2500, 4500),
                           med |-> triangular_membership(implied.v[1], 3500, 5000, 6500),
                           high |-> triangular_membership(implied.v[1], 5500, 7500, S)],
                 implied_prob |-> implied.v[1]])

Max3(x, y, z) == Max2(x, Max2(y, z))

\* The firing strength of each of the five rules.
apply_rules(fuzzy_sets) ==
    LET home_goals == fuzzy_sets.home_goals
        away_goals == fuzzy_sets.away_goals
        prob == fuzzy_sets.prob
    IN  [very_high |-> Min2(home_goals.high, away_goals.low),
         high |-> Max3(Min2(home_goals.high, away_goals.med),
                       Min2(home_goals.med, away_goals.low),
                       Min2(prob.high, home_goals.med)),
         medium |-> Max2(home_goals.med, Min2(prob.med, home_goals.med)),
         low |-> Min2(away_goals.high, S - home_goals.high),
         very_low |-> Min2(away_goals.high, home_goals.low)]

\* Sugeno weighted average with the consequents 0.85, 0.70, 0.50, 0.30, 0.15.
defuzzify(rule_fire) ==
    LET numerator == Mul(rule_fire.very_high, 8500) + Mul(rule_fire.high, 7000)
                     + Mul(rule_fire.medium, 5000) + Mul(rule_fire.low, 3000)
                     + Mul(rule_fire.very_low, 1500)
        denominator == rule_fire.very_high + rule_fire.high + rule_fire.medium
                       + rule_fire.low + rule_fire.very_low
    IN  IF denominator = 0 THEN 5000 ELSE Div(numerator, denominator)

fuzzy_calculate_probability(home_goals_avg, away_goals_avg, odds_home, odds_draw, odds_away) ==
    LET fuzzy_sets == fuzzify(home_goals_avg, away_goals_avg, odds_home, odds_draw, odds_away)
    IN  IF fuzzy_sets.exc # "none" THEN fuzzy_sets
        ELSE LET p_home == defuzzify(apply_rules(fuzzy_sets.v))
                 goal_diff_away == away_goals_avg - home_goals_avg
                 p_away_base == Clamp(5000 + Mul(goal_diff_away, 1500), 0, S)
                 implied == implied_probabilities(odds_home, odds_draw, odds_away)
             IN  IF implied.exc # "none" THEN implied
                 ELSE Ok(Clamp01(Normalize3(
                        <<Mul(6000, p_home) + Mul(4000, implied.v[1]),
                          Mul(6000, Max2(0, S - p_home - p_away_base)) + Mul(4000, implied.v[2]),
                          Mul(6000, p_away_base) + Mul(4000, implied.v[3])>>)))

(***************************************************************************)
(* app/core/hybrid_engine.py                                                *)
(***************************************************************************)

\* total = p_home + p_away
Normalize3_draw_left_out(t) ==
    LET total == t[1] + t[3]
    IN  IF total > 0 THEN <<Div(t[1], total), Div(t[2], total), Div(t[3], total)>>
        ELSE <<Div(S, 3 * S), Div(S, 3 * S), Div(S, 3 * S)>>

combine_probabilities_draw_left_out(p_stat, p_fuzzy, stat_confidence_, fuzzy_confidence_) ==
    LET zero == (stat_confidence_ + fuzzy_confidence_ = 0)
        stat_confidence == IF zero THEN 5000 ELSE stat_confidence_
        fuzzy_confidence == IF zero THEN 5000 ELSE fuzzy_confidence_
        total_conf == IF zero THEN S ELSE stat_confidence_ + fuzzy_confidence_
        w_stat == Div(stat_confidence, total_conf)
        w_fuzzy == Div(fuzzy_confidence, total_conf)
    IN  Clamp01(Normalize3_draw_left_out(
                    <<Mul(w_stat, p_stat[1]) + Mul(w_fuzzy, p_fuzzy[1]),
                      Mul(w_stat, p_stat[2]) + Mul(w_fuzzy, p_fuzzy[2]),
                      Mul(w_stat, p_stat[3]) + Mul(w_fuzzy, p_fuzzy[3])>>))

combine_probabilities(p_stat, p_fuzzy, stat_confidence_, fuzzy_confidence_) ==
    LET zero == (stat_confidence_ + fuzzy_confidence_ = 0)
        stat_confidence == IF zero THEN 5000 ELSE stat_confidence_
        fuzzy_confidence == IF zero THEN 5000 ELSE fuzzy_confidence_
        total_conf == IF zero THEN S ELSE stat_confidence_ + fuzzy_confidence_
        w_stat == Div(stat_confidence, total_conf)
        w_fuzzy == Div(fuzzy_confidence, total_conf)
    IN  Clamp01(Normalize3(<<Mul(w_stat, p_stat[1]) + Mul(w_fuzzy, p_fuzzy[1]),
                             Mul(w_stat, p_stat[2]) + Mul(w_fuzzy, p_fuzzy[2]),
                             Mul(w_stat, p_stat[3]) + Mul(w_fuzzy, p_fuzzy[3])>>))

(***************************************************************************)
(* app/core/backtester.py                                                   *)
(***************************************************************************)

\* A CSV field as row.get() hands it to float() or int(): None (the column
\* or the cell is missing), a text that is no number, a decimal literal
\* ("0.55", v = 5500) or an integer literal ("1", v = 1).
None == [k |-> "none", v |-> 0]

Text == [k |-> "str", v |-> 0]

Num(v) == [k |-> "num", v |-> v]

Whole(v) == [k |-> "int", v |-> v]

\* float(field)
ParseFloat(f) ==
    CASE f.k = "none" -> Raise("TypeError")
      [] f.k = "str" -> Raise("ValueError")
      [] f.k = "int" -> Ok(f.v * S)
      [] OTHER -> Ok(f.v)

\* int(field)
ParseInt(f) ==
    CASE f.k = "none" -> Raise("TypeError")
      [] f.k = "int" -> Ok(f.v)
      [] OTHER -> Raise("ValueError")

\* The eight conversions in the order the loop body makes them.
ParseSteps(row) ==
    << ParseFloat(row.home_goals_avg), ParseFloat(row.away_goals_avg),
       ParseFloat(row.home_win_rate), ParseFloat(row.away_win_rate),
       ParseFloat(row.odds_home), ParseFloat(row.odds_draw),
       ParseFloat(row.odds_away), ParseInt(row.outcome) >>

\* Parse: the parsed values, or the exception of the first conversion that fails.
Parse(row) ==
    LET steps == ParseSteps(row)
        bad == {i \in 1..8 : steps[i].exc # "none"}
    IN  IF bad = {} THEN Ok([i \in 1..8 |-> steps[i].v])
        ELSE steps[CHOOSE i \in bad : \A j \in bad : i <= j]

\* except (ValueError, KeyError): continue
Caught(e) == e \in {"ValueError", "KeyError"}

OddsGate_strict(odds_home, odds_draw, odds_away) ==
    odds_home > S \/ odds_draw > S \/ odds_away > S

\* if odds_home >= 1.0 or odds_draw >= 1.0 or odds_away >= 1.0: continue
OddsGate(odds_home, odds_draw, odds_away) ==
    odds_home >= S \/ odds_draw >= S \/ odds_away >= S

\* if not (0 <= home_win_rate <= 1) or not (0 <= away_win_rate <= 1): continue
RateGate(home_win_rate, away_win_rate) ==
    ~(0 <= home_win_rate /\ home_win_rate <= S) \/ ~(0 <= away_win_rate /\ away_win_rate <= S)

\* Python values whose type decides whether an ordering comparison is defined.
PyFloat(x) == [type |-> "float", v |-> x]

PyTuple(t) == [type |-> "tuple", v |-> t]

\* a <= b: "True", "False", or "TypeError" between a tuple and a number.
PyLe(a, b) ==
    IF a.type = "float" /\ b.type = "float"
    THEN (IF a.v <= b.v THEN "True" ELSE "False")
    ELSE "TypeError"

MinEdge == 200

BacktestKellyFraction == 2500

\* The loop's accumulators.
Acc(bankroll_, equity_curve_, total_bets_, winning_bets_) ==
    [bankroll |-> bankroll_, equity_curve |-> equity_curve_,
     total_bets |-> total_bets_, winning_bets |-> winning_bets_]

\* What the loop body did with one row: it skipped it (continue), settled a
\* bet on it, or let an exception out of run_backtest.
Outcome(ev, stage, e, acc, stake) ==
    [ev |-> ev, stage |-> stage, exc |-> e, acc |-> acc, stake |-> stake]

SkipRow_recording(stage, acc) ==
    Outcome("skip", stage, "none",
            [acc EXCEPT !.equity_curve = Append(acc.equity_curve, acc.bankroll)], 0)

\* continue: the accumulators are left as they are.
SkipRow(stage, acc) == Outcome("skip", stage, "none", acc, 0)

\* An exception raised at `stage`: the row's handler takes ValueError and
\* KeyError, and nothing in run_backtest takes any other.
Exceptional(stage, e, acc) ==
    IF Caught(e) THEN [SkipRow(stage, acc) EXCEPT !.exc = e]
    ELSE Outcome("raise", stage, e, acc, 0)

Settle_win_pays_odds(acc, stake, odds_home, outcome) ==
    LET b == IF outcome = 1 THEN acc.bankroll + Mul(stake, odds_home)
             ELSE acc.bankroll - stake
    IN  [bankroll |-> b,
         equity_curve |-> Append(acc.equity_curve, b),
         total_bets |-> acc.total_bets + 1,
         winning_bets |-> acc.winning_bets + (IF outcome = 1 THEN 1 ELSE 0)]

\* Record bet, determine outcome, track equity curve.
Settle(acc, stake, odds_home, outcome) ==
    LET b == IF outcome = 1 THEN acc.bankroll + Mul(stake, odds_home - S)
             ELSE acc.bankroll - stake
    IN  [bankroll |-> b,
         equity_curve |-> Append(acc.equity_curve, b),
         total_bets |-> acc.total_bets + 1,
         winning_bets |-> acc.winning_bets + (IF outcome = 1 THEN 1 ELSE 0)]

\* kelly.calculate_stake(p_hybrid, odds_home, bankroll, kelly_fraction=0.25):
\* its first statement compares `probability` with 0.
StakeCall(probability, odds_home, bankroll_) ==
    IF PyLe(probability, PyFloat(0)) = "TypeError" THEN Raise("TypeError")
    ELSE Ok(calculate_stake(probability.v, odds_home, bankroll_, BacktestKellyFraction))

\* The body of `for row in reader`: the outcomes it may have on `row`.
LoopBody(row, acc) ==
    LET parsed == Parse(row)
    IN  IF parsed.exc # "none" THEN {Exceptional("Parse", parsed.exc, acc)}
        ELSE
        LET home_goals_avg == parsed.v[1]
            away_goals_avg == parsed.v[2]
            home_win_rate == parsed.v[3]
            away_win_rate == parsed.v[4]
            odds_home == parsed.v[5]
            odds_draw == parsed.v[6]
            odds_away == parsed.v[7]
            outcome == parsed.v[8]
        IN  IF OddsGate(odds_home, odds_draw, odds_away) THEN {SkipRow("Validate", acc)}
            ELSE IF RateGate(home_win_rate, away_win_rate) THEN {SkipRow("Validate", acc)}
            ELSE
            LET p_stat == stat_calculate_probability(home_goals_avg, away_goals_avg,
                                                     home_win_rate, away_win_rate)
                p_fuzzy == fuzzy_calculate_probability(home_goals_avg, away_goals_avg,
                                                       odds_home, odds_draw, odds_away)
            IN  IF p_fuzzy.exc # "none" THEN {Exceptional("Predict", p_fuzzy.exc, acc)}
                ELSE
                LET p_hybrid == PyTuple(combine_probabilities(p_stat, p_fuzzy.v, 5000, 5000))
                    implied_prob == Div(S, odds_home)
                    no_edge == PyLe(p_hybrid, PyFloat(implied_prob + MinEdge))
                IN  IF no_edge = "TypeError" THEN {Exceptional("EdgeCheck", "TypeError", acc)}
                    ELSE IF no_edge = "True" THEN {SkipRow("EdgeCheck", acc)}
                    ELSE
                    LET staked == StakeCall(p_hybrid, odds_home, acc.bankroll)
                    IN  IF staked.exc # "none" THEN {Exceptional("Stake", staked.exc, acc)}
                        ELSE { IF ks[2] <= 0 THEN SkipRow("Stake", acc)
                               ELSE Outcome("settle", "Record", "none",
                                            Settle(acc, ks[2], odds_home, outcome), ks[2])
                               : ks \in staked.v }

\* round(x, 2) of a value that is a whole number of cents or lies off the
\* half-way point; half-way values go to the even cent.
Round2(x) ==
    LET cent == S \div 100
        lo == (x \div cent) * cent
        i == x % cent
    IN  IF 2 * i < cent THEN lo
        ELSE IF 2 * i > cent THEN lo + cent
        ELSE IF (x \div cent) % 2 = 0 THEN lo ELSE lo + cent

\* ((bankroll - initial_bankroll) / initial_bankroll) * 100 if initial_bankroll > 0 else 0
Roi(bankroll_, initial_) ==
    IF initial_ > 0
    THEN LET d == bankroll_ - initial_
             m == MulDivQR(Abs(d), S, initial_)[1]
         IN  100 * (IF d < 0 THEN -m ELSE m)
    ELSE 0

NoResult == [roi |-> 0, total_bets |-> -1, winning_bets |-> -1, losing_bets |-> -1,
             equity_curve |-> <<>>, final_bankroll |-> 0]

\* The dict run_backtest returns.
BacktestResult(acc, initial_) ==
    [roi |-> Round2(Roi(acc.bankroll, initial_)),
     total_bets |-> acc.total_bets,
     winning_bets |-> acc.winning_bets,
     losing_bets |-> acc.total_bets - acc.winning_bets,
     equity_curve |-> [i \in 1..Len(acc.equity_curve) |-> Round2(acc.equity_curve[i])],
     final_bankroll |-> Round2(acc.bankroll)]

NoLast == [n |-> 0, ev |-> "none", stage |-> "none", exc |-> "none", stake |-> 0,
           odds_home |-> 0, outcome |-> 0]

NoCall == [fn |-> "none"]

\* The accumulators of the run in progress.
CurrentAcc == Acc(bankroll, equity_curve, total_bets, winning_bets)

\* One iteration of `for row in reader`, lines 56-121.
ProcessRow ==
    /\ status = "running"
    /\ idx <= Len(rows)
    /\ \E o \in LoopBody(rows[idx], CurrentAcc) :
          /\ bankroll' = o.acc.bankroll
          /\ equity_curve' = o.acc.equity_curve
          /\ total_bets' = o.acc.total_bets
          /\ winning_bets' = o.acc.winning_bets
          /\ status' = IF o.ev = "raise" THEN "raised" ELSE "running"
          /\ exc' = IF o.ev = "raise" THEN o.exc ELSE exc
          /\ last' = [n |-> idx, ev |-> o.ev, stage |-> o.stage, exc |-> o.exc,
                      stake |-> o.stake, odds_home |-> 0, outcome |-> 0]
    /\ idx' = idx + 1
    /\ UNCHANGED <<rows, initial_bankroll, result, call>>
    /\ UNCHANGED svcVars

\* The reader is exhausted: the metrics are computed and the dict returned,
\* lines 123-134.
ReturnResult ==
    /\ status = "running"
    /\ idx > Len(rows)
    /\ result' = BacktestResult(CurrentAcc, initial_bankroll)
    /\ status' = "returned"
    /\ UNCHANGED <<rows, idx, initial_bankroll, bankroll, equity_curve, total_bets,
                   winning_bets, exc, last, call>>
    /\ UNCHANGED svcVars

(***************************************************************************)
(* The datasets of the model.                                               *)
(***************************************************************************)

Row(hg, ag, hw, aw, oh, od, oa, out) ==
    [home_goals_avg |-> hg, away_goals_avg |-> ag, home_win_rate |-> hw,
     away_win_rate |-> aw, odds_home |-> oh, odds_draw |-> od, odds_away |-> oa,
     outcome |-> out]

\* 1.5, 1.2, 0.55, 0.45, 2.0, 3.5, 3.8, 1
FixtureRow == Row(Num(15000), Num(12000), Num(5500), Num(4500),
                  Num(20000), Num(35000), Num(38000), Whole(1))

\* every odd below 1.0
LowOddsRow == Row(Num(15000), Num(12000), Num(5500), Num(4500),
                  Num(5000), Num(5000), Num(5000), Whole(1))

LowOddsLossRow == Row(Num(12000), Num(15000), Num(4500), Num(5500),
                      Num(5000), Num(9000), Num(5000), Whole(0))

\* odds_home = 0
ZeroOddsRow == Row(Num(15000), Num(12000), Num(5500), Num(4500),
                   Num(0), Num(5000), Num(5000), Whole(1))

\* odds_home = 1.0 exactly
UnitOddsRow == Row(Num(15000), Num(12000), Num(5500), Num(4500),
                   Num(10000), Num(5000), Num(5000), Whole(1))

\* home_win_rate = 1.55
BadRateRow == Row(Num(15000), Num(12000), Num(15500), Num(4500),
                  Num(5000), Num(5000), Num(5000), Whole(1))

\* a short line: odds_away and outcome are missing
MissingRow == Row(Num(15000), Num(12000), Num(5500), Num(4500),
                  Num(5000), Num(5000), None, None)

\* away_goals_avg = "abc"
TextRow == Row(Num(15000), Text, Num(5500), Num(4500),
               Num(5000), Num(5000), Num(5000), Whole(1))

\* outcome = "1.0"
DecimalOutcomeRow == Row(Num(15000), Num(12000), Num(5500), Num(4500),
                         Num(5000), Num(5000), Num(5000), Num(10000))

\* away_goals_avg = "abc" on a short line
TextMissingRow == Row(Num(15000), Text, Num(5500), Num(4500),
                      Num(5000), Num(5000), None, None)

RowSet == {FixtureRow, LowOddsRow, LowOddsLossRow, ZeroOddsRow, UnitOddsRow, BadRateRow,
           MissingRow, TextRow, DecimalOutcomeRow, TextMissingRow}

\* The longest dataset of the model.
MaxRows == 3

RECURSIVE SeqsUpTo(_, _)
SeqsUpTo(set, n) ==
    IF n = 0 THEN {<<>>}
    ELSE LET shorter == SeqsUpTo(set, n - 1)
         IN  shorter \cup {Append(q, x) : q \in {t \in shorter : Len(t) = n - 1}, x \in set}

Datasets == SeqsUpTo(RowSet, MaxRows)

\* initial_bankroll: float = 7000.0
DefaultBankroll == 7000 * S

\* run_backtest has opened the dataset: lines 47-54.
Init ==
    /\ rows \in Datasets
    /\ idx = 1
    /\ initial_bankroll = DefaultBankroll
    /\ bankroll = initial_bankroll
    /\ equity_curve = <<bankroll>>
    /\ total_bets = 0
    /\ winning_bets = 0
    /\ status = "running"
    /\ exc = "none"
    /\ result = NoResult
    /\ last = NoLast
    /\ call = NoCall
    /\ ServiceIdle

Next == ProcessRow \/ ReturnResult

Spec == Init /\ [][Next]_vars

(***************************************************************************)
(* Properties of run_backtest                                               *)
(***************************************************************************)

\* The row the loop is about to read, when there is one.
AtRow == status = "running" /\ idx <= Len(rows)

\* The loop went on to the next row and left the accumulators alone.
RowSkipped ==
    /\ status' = "running"
    /\ idx' = idx + 1
    /\ bankroll' = bankroll
    /\ total_bets' = total_bets
    /\ winning_bets' = winning_bets
    /\ equity_curve' = equity_curve

FloatFields(row) ==
    <<row.home_goals_avg, row.away_goals_avg, row.home_win_rate, row.away_win_rate,
      row.odds_home, row.odds_draw, row.odds_away>>

\* Every required field is there and numeric, and the outcome is an integer.
RowIsWellFormed(row) ==
    /\ \A i \in 1..7 : FloatFields(row)[i].k \in {"num", "int"}
    /\ row.outcome.k = "int"

\* C1: after any prefix of any dataset, and in the returned result, the
\* equity curve has exactly 1 + total_bets entries.
C1_EquityCurveLength ==
    /\ Len(equity_curve) = 1 + total_bets
    /\ status = "returned" => Len(result.equity_curve) = 1 + result.total_bets

\* A run that read at least two rows, skipped the last one and returned.
C1_Witness ==
    /\ status = "returned"
    /\ Len(rows) >= 2
    /\ last.ev = "skip"
    /\ Len(result.equity_curve) = 1 + result.total_bets

\* C2: a row with a missing or non-numeric field (or a non-integer outcome)
\* is skipped: the accumulators are unchanged and the loop goes on.
C2_ParseFailureSkipped ==
    [][(AtRow /\ ~RowIsWellFormed(rows[idx])) => RowSkipped]_vars

\* One of the three odds is not above 1.0, or a win rate is outside [0, 1].
RowOutOfRange(row) ==
    \/ row.odds_home.v <= S \/ row.odds_draw.v <= S \/ row.odds_away.v <= S
    \/ row.home_win_rate.v < 0 \/ row.home_win_rate.v > S
    \/ row.away_win_rate.v < 0 \/ row.away_win_rate.v > S

\* C3: no row with out-of-range odds or win rates is fatal: it is skipped
\* and no error escapes run_backtest.
C3_OutOfRangeRowSkipped ==
    [][(AtRow /\ RowIsWellFormed(rows[idx]) /\ RowOutOfRange(rows[idx]))
        => (RowSkipped /\ exc' = "none")]_vars

\* An odd is at least 1.0, or a win rate is outside [0, 1].
RowFailsValidate(row) ==
    \/ row.odds_home.v >= S \/ row.odds_draw.v >= S \/ row.odds_away.v >= S
    \/ row.home_win_rate.v < 0 \/ row.home_win_rate.v > S
    \/ row.away_win_rate.v < 0 \/ row.away_win_rate.v > S

\* C4: a parsed row with an odd >= 1.0 or a win rate outside [0, 1] is skipped
\* at Validate with no effect on bankroll, counters or equity curve.
C4_ValidateSkips ==
    [][(AtRow /\ RowIsWellFormed(rows[idx]) /\ RowFailsValidate(rows[idx]))
        => (RowSkipped /\ last'.stage = "Validate" /\ last'.ev = "skip")]_vars

\* The loop has skipped at Validate a parsed row whose odds_home is >= 1.0.
C4_Witness ==
    /\ last.ev = "skip"
    /\ last.stage = "Validate"
    /\ RowIsWellFormed(rows[last.n])
    /\ rows[last.n].odds_home.v >= S
    /\ status = "running"

\* The hybrid distribution of a well-formed row whose odds are not zero.
HybridOf(row) ==
    combine_probabilities(
        stat_calculate_probability(row.home_goals_avg.v, row.away_goals_avg.v,
                                   row.home_win_rate.v, row.away_win_rate.v),
        fuzzy_calculate_probability(row.home_goals_avg.v, row.away_goals_avg.v,
                                    row.odds_home.v, row.odds_draw.v, row.odds_away.v).v,
        5000, 5000)

\* The row passes Validate and its prediction is defined.
RowReachesEdgeCheck(row) ==
    /\ RowIsWellFormed(row)
    /\ ~RowFailsValidate(row)
    /\ fuzzy_calculate_probability(row.home_goals_avg.v, row.away_goals_avg.v,
                                   row.odds_home.v, row.odds_draw.v, row.odds_away.v).exc = "none"

\* C5: a row that passed Validate reaches Stake only if its hybrid home
\* probability exceeds the implied home probability plus 0.02; otherwise it
\* is skipped at EdgeCheck with no bankroll change.
C5_EdgeCheck ==
    [][(AtRow /\ RowReachesEdgeCheck(rows[idx])) =>
        IF HybridOf(rows[idx])[1] > Div(S, rows[idx].odds_home.v) + 200
        THEN last'.stage \in {"Stake", "Record"}
        ELSE RowSkipped /\ last'.stage = "EdgeCheck" /\ last'.ev = "skip"]_vars

\* C10: on the single-row dataset (1.5, 1.2, 0.55, 0.45, 2.0, 3.5, 3.8, 1)
\* with initial_bankroll = 7000 a bet is placed if and only if the hybrid home
\* probability exceeds 0.52, and a placed bet leaves 7000 + stake * (2.0 - 1).
C10_FixtureScenario ==
    (rows = <<FixtureRow>> /\ initial_bankroll = 7000 * S /\ status # "running") =>
        /\ (total_bets = 1) <=> (HybridOf(FixtureRow)[1] > 5200)
        /\ total_bets = 1 => bankroll = 7000 * S + Mul(last.stake, 20000 - S)

\* The run on that dataset has returned, with no bet placed.
C10_Witness ==
    /\ rows = <<FixtureRow>>
    /\ initial_bankroll = 7000 * S
    /\ status = "returned"
    /\ result.total_bets = 0
    /\ result.final_bankroll = 7000 * S

\* The loop settled a bet on the row: one more bet, at most one more win, and
\* the new bankroll appended to an otherwise unchanged equity curve.
RowSettled ==
    /\ status' = "running"
    /\ idx' = idx + 1
    /\ total_bets' = total_bets + 1
    /\ winning_bets' \in {winning_bets, winning_bets + 1}
    /\ equity_curve' = Append(equity_curve, bankroll')

\* C16: rows are taken in dataset order and each is one step that either
\* skips the row (at Parse, Validate, EdgeCheck or Stake) leaving bankroll,
\* counters and equity curve unchanged, or settles it: total_bets + 1,
\* winning_bets + 0 or 1, the new bankroll appended to the equity curve.
C16_RowIsSkippedOrSettled ==
    [][AtRow =>
        /\ last'.n = idx
        /\ \/ RowSkipped /\ last'.stage \in {"Parse", "Validate", "EdgeCheck", "Stake"}
           \/ RowSettled]_vars

(***************************************************************************)
(* The settle block of the loop body, lines 104-117, from any entry state   *)
(***************************************************************************)

\* The most bets a run of SpecSettle settles.
MaxBets == 2

\* Stakes (0.01, 123.45, 350.00), home odds and outcome codes at the block's entry.
SettleStakes == {100, 1234500, 350 * S}

SettleOdds == {5000, 20000, 25000, 38000}

SettleOutcomes == {0, 1, 2}

\* Lines 104-117 on a positive stake.
SettleBet ==
    /\ status = "running"
    /\ total_bets < MaxBets
    /\ \E stake \in SettleStakes, odds_home \in SettleOdds, outcome \in SettleOutcomes :
          LET a == Settle(CurrentAcc, stake, odds_home, outcome)
          IN  /\ bankroll' = a.bankroll
              /\ equity_curve' = a.equity_curve
              /\ total_bets' = a.total_bets
              /\ winning_bets' = a.winning_bets
              /\ last' = [n |-> 0, ev |-> "settle", stage |-> "Record", exc |-> "none",
                          stake |-> stake, odds_home |-> odds_home, outcome |-> outcome]
    /\ UNCHANGED <<rows, idx, initial_bankroll, status, exc, result, call>>
    /\ UNCHANGED svcVars

InitSettle ==
    /\ rows = <<>>
    /\ idx = 1
    /\ initial_bankroll = DefaultBankroll
    /\ bankroll = initial_bankroll
    /\ equity_curve = <<bankroll>>
    /\ total_bets = 0
    /\ winning_bets = 0
    /\ status = "running"
    /\ exc = "none"
    /\ result = NoResult
    /\ last = NoLast
    /\ call = NoCall
    /\ ServiceIdle

NextSettle == SettleBet

SpecSettle == InitSettle /\ [][NextSettle]_vars

\* C6: every settled bet increments total_bets by one; on outcome code 1 the
\* bankroll grows by stake * (odds_home - 1) and winning_bets by one, on any
\* other code the bankroll falls by exactly the stake and winning_bets stays.
C6_Settlement ==
    [][/\ total_bets' = total_bets + 1
       /\ IF last'.outcome = 1
          THEN /\ bankroll' = bankroll + Mul(last'.stake, last'.odds_home - S)
               /\ winning_bets' = winning_bets + 1
          ELSE /\ bankroll' = bankroll - last'.stake
               /\ winning_bets' = winning_bets]_vars

\* A won bet and a lost bet have been settled.
C6_Witness ==
    /\ total_bets = 2
    /\ winning_bets = 1
    /\ last.ev = "settle"
    /\ last.outcome = 2
    /\ Len(equity_curve) = 3

(***************************************************************************)
(* calculate_stake on its own                                               *)
(***************************************************************************)

KellyProbabilities == {-1000, 0, 3000, 5010, 6000, 9000, 10000}

KellyOdds == {5000, 10000, 20000, 35000}

\* 0, 10.16, 1000, 7000
KellyBankrolls == {0, 101600, 1000 * S, 7000 * S}

KellyMultipliers == {-2500, 0, 100, 250, 300, 2500, 5000, 10000}

CallCalculateStake ==
    /\ call = NoCall
    /\ \E probability \in KellyProbabilities, odds \in KellyOdds,
          bankroll_ \in KellyBankrolls, kelly_fraction \in KellyMultipliers :
          \E ret \in calculate_stake(probability, odds, bankroll_, kelly_fraction) :
             call' = [fn |-> "calculate_stake", probability |-> probability, odds |-> odds,
                      bankroll |-> bankroll_, kelly_fraction |-> kelly_fraction, ret |-> ret]
    /\ UNCHANGED runVars
    /\ UNCHANGED svcVars

InitIdle ==
    /\ rows = <<>>
    /\ idx = 1
    /\ initial_bankroll = DefaultBankroll
    /\ bankroll = initial_bankroll
    /\ equity_curve = <<bankroll>>
    /\ total_bets = 0
    /\ winning_bets = 0
    /\ status = "idle"
    /\ exc = "none"
    /\ result = NoResult
    /\ last = NoLast
    /\ call = NoCall
    /\ ServiceIdle

NextKelly == CallCalculateStake

SpecKelly == InitIdle /\ [][NextKelly]_vars

\* The scaled Kelly fraction of the last call, as the exact value (q + r/c) / S;
\* 0 when it is not positive.
CallScaled ==
    KellyScaled(call.probability * (call.odds - S) - (S - call.probability) * S,
                call.odds - S, call.kelly_fraction)

\* The call has no edge to stake on: probability outside (0, 1), odds <= 1, or
\* a scaled Kelly fraction that is not positive.
CallHasNoEdge ==
    \/ call.probability <= 0 \/ call.probability >= S
    \/ call.odds <= S
    \/ (CallScaled.q = 0 /\ CallScaled.r = 0)

\* C7 as stated: the stake never exceeds the cap fraction (0.05 = 1/20) times
\* the bankroll, and the Kelly fraction lies in [0, cap].
C7_StakeWithinCap ==
    call.fn = "calculate_stake" =>
        /\ 20 * call.ret[2] <= call.bankroll
        /\ 0 <= call.ret[1] /\ call.ret[1] <= 500

\* C7 amended: the stake is rounded to cents, so it exceeds 0.05 * bankroll by
\* at most half a cent (and never exceeds 0.25 * bankroll); the Kelly fraction
\* lies in [0, 0.05].
C7_StakeWithinCapRounded ==
    call.fn = "calculate_stake" =>
        /\ 20 * call.ret[2] <= call.bankroll + 20 * 50
        /\ 4 * call.ret[2] <= call.bankroll
        /\ 0 <= call.ret[1] /\ call.ret[1] <= 500

\* A capped call whose stake was rounded up past 0.05 * bankroll.
C7_Witness ==
    /\ call.fn = "calculate_stake"
    /\ call.ret[1] = 500
    /\ 20 * call.ret[2] > call.bankroll

\* C8 as stated: (0, 0) when there is no edge, a strictly positive Kelly
\* fraction in every other case.
C8_ZeroOrPositive ==
    call.fn = "calculate_stake" =>
        IF CallHasNoEdge THEN call.ret = <<0, 0>> ELSE call.ret[1] > 0

\* C8 amended: (0, 0) when there is no edge; in every other case the Kelly
\* fraction is not negative, and is strictly positive when the scaled fraction
\* exceeds 0.00005 (half a unit of the fourth decimal).
C8_ZeroOrRounded ==
    call.fn = "calculate_stake" =>
        IF CallHasNoEdge THEN call.ret = <<0, 0>>
        ELSE /\ call.ret[1] >= 0
             /\ (CallScaled.q >= 1 \/ 2 * CallScaled.r > CallScaled.c) => call.ret[1] > 0

\* A call with a positive scaled fraction that rounds to 0.0, and one just
\* above half a unit that rounds to 0.0001.
C8_Witness ==
    /\ call.fn = "calculate_stake"
    /\ ~CallHasNoEdge
    /\ CallScaled.q = 0
    /\ 2 * CallScaled.r > CallScaled.c
    /\ call.ret[1] = 1

(***************************************************************************)
(* app/main.py: POST /predict                                               *)
(***************************************************************************)

\* PredictionRequest's Field constraints (app/schemas.py): a request that
\* breaks one never reaches the handler.
SchemaAccepts(request) ==
    /\ 0 <= request.home_win_rate /\ request.home_win_rate <= S
    /\ 0 <= request.away_win_rate /\ request.away_win_rate <= S
    /\ request.odds_home > S /\ request.odds_draw > S /\ request.odds_away > S
    /\ request.bankroll > 0
    /\ 0 <= request.kelly_fraction /\ request.kelly_fraction <= S

\* The handler's own validation: a ValueError, answered with status 500.
HandlerRejects(request) ==
    \/ request.home_goals_avg < 0 \/ request.away_goals_avg < 0
    \/ ~(0 < request.home_win_rate /\ request.home_win_rate < S)
    \/ ~(0 < request.away_win_rate /\ request.away_win_rate < S)

BestOutcome_smallest_edge(edges) ==
    IF edges[1] <= edges[2] /\ edges[1] <= edges[3] THEN 1
    ELSE IF edges[2] <= edges[3] THEN 2
    ELSE 3

\* max(edges, key=edges.get): the first of home, draw, away whose edge is largest.
BestOutcome(edges) ==
    IF edges[1] >= edges[2] /\ edges[1] >= edges[3] THEN 1
    ELSE IF edges[2] >= edges[3] THEN 2
    ELSE 3

OutcomeName(i) == <<"home", "draw", "away">>[i]

\* The handler on an accepted request: the responses it may give.
predict(request) ==
    IF HandlerRejects(request) THEN {[status |-> 500]}
    ELSE
    LET p_stat == stat_calculate_probability(request.home_goals_avg, request.away_goals_avg,
                                             request.home_win_rate, request.away_win_rate)
        p_fuzzy == fuzzy_calculate_probability(request.home_goals_avg, request.away_goals_avg,
                                               request.odds_home, request.odds_draw,
                                               request.odds_away).v
        p_hybrid == combine_probabilities(p_stat, p_fuzzy, 5000, 5000)
        implied == implied_probabilities(request.odds_home, request.odds_draw,
                                         request.odds_away).v
        edges == <<p_hybrid[1] - implied[1], p_hybrid[2] - implied[2],
                   p_hybrid[3] - implied[3]>>
        best == BestOutcome(edges)
        best_odds == <<request.odds_home, request.odds_draw, request.odds_away>>[best]
        best_probability == p_hybrid[best]
    IN  { [status |-> 200, p_stat |-> p_stat, p_fuzzy |-> p_fuzzy, p_hybrid |-> p_hybrid,
           kelly_fraction |-> ks[1], recommended_stake |-> ks[2],
           recommended_outcome |-> OutcomeName(best),
           best_probability |-> best_probability, best_odds |-> best_odds]
          : ks \in calculate_stake(best_probability, best_odds, request.bankroll,
                                   request.kelly_fraction) }

PredictRequests ==
    [home_goals_avg : {5000, 15000, 30000},
     away_goals_avg : {5000, 12000},
     home_win_rate : {0, 5500},
     away_win_rate : {4500},
     odds_home : {9000, 20000, 60000},
     odds_draw : {35000},
     odds_away : {15000, 38000},
     bankroll : {1000 * S},
     kelly_fraction : {2500, 5000, 10000}]

\* POST /predict: 422 from the schema, else the handler's response.
Predict ==
    /\ call = NoCall
    /\ \E request \in PredictRequests :
          \E response \in (IF SchemaAccepts(request) THEN predict(request)
                           ELSE {[status |-> 422]}) :
             call' = [fn |-> "predict", request |-> request, response |-> response]
    /\ UNCHANGED runVars
    /\ UNCHANGED svcVars

NextPredict == Predict

SpecPredict == InitIdle /\ [][NextPredict]_vars

\* The scaled Kelly fraction of the recommended outcome of the last response.
ResponseScaled ==
    LET r == call.response
    IN  KellyScaled(r.best_probability * (r.best_odds - S) - (S - r.best_probability) * S,
                    r.best_odds - S, call.request.kelly_fraction)

Answered == call.fn = "predict" /\ call.response.status = 200

RequestEdges ==
    LET q == call.request
        inv == <<Div(S, q.odds_home), Div(S, q.odds_draw), Div(S, q.odds_away)>>
        total_inv == inv[1] + inv[2] + inv[3]
    IN  [i \in 1..3 |-> call.response.p_hybrid[i] - Div(inv[i], total_inv)]

RequestOdds == <<call.request.odds_home, call.request.odds_draw, call.request.odds_away>>

\* The hybrid distribution of the last request, from the two engines.
RequestHybrid ==
    LET q == call.request
    IN  combine_probabilities(
            stat_calculate_probability(q.home_goals_avg, q.away_goals_avg,
                                       q.home_win_rate, q.away_win_rate),
            fuzzy_calculate_probability(q.home_goals_avg, q.away_goals_avg,
                                        q.odds_home, q.odds_draw, q.odds_away).v,
            5000, 5000)

\* C12: the recommended outcome of an answered request is one of home, draw,
\* away whose edge is the largest, and the Kelly fraction and the stake are
\* what calculate_stake gives for that outcome's hybrid probability and odds
\* with the request's bankroll and multiplier.
C12_RecommendedOutcome ==
    Answered =>
        /\ call.response.p_hybrid = RequestHybrid
        /\ \E i \in 1..3 :
              /\ call.response.recommended_outcome = OutcomeName(i)
              /\ \A j \in 1..3 : RequestEdges[i] >= RequestEdges[j]
              /\ <<call.response.kelly_fraction, call.response.recommended_stake>>
                    \in calculate_stake(RequestHybrid[i], RequestOdds[i],
                                        call.request.bankroll, call.request.kelly_fraction)

\* An answered request that recommends the away outcome with a stake, its
\* edge strictly the largest.
C12_Witness ==
    /\ Answered
    /\ call.response.recommended_outcome = "away"
    /\ call.response.recommended_stake > 0
    /\ RequestEdges[3] > RequestEdges[1]
    /\ RequestEdges[3] > RequestEdges[2]

(***************************************************************************)
(* combine_probabilities on its own                                         *)
(***************************************************************************)

\* 0, 0.25, 0.5, 1
ProbValues == {0, 2500, 5000, 10000}

\* Triples with components in [0, 1]; they need not sum to 1.
CombineTriples == {<<h, d, a>> : h \in ProbValues, d \in ProbValues, a \in ProbValues}

Confidences == {0, 2500, 5000, 10000}

CallCombine ==
    /\ call = NoCall
    /\ \E p_stat \in CombineTriples, p_fuzzy \in CombineTriples,
          stat_confidence \in Confidences, fuzzy_confidence \in Confidences :
          call' = [fn |-> "combine_probabilities", p_stat |-> p_stat, p_fuzzy |-> p_fuzzy,
                   stat_confidence |-> stat_confidence, fuzzy_confidence |-> fuzzy_confidence,
                   ret |-> combine_probabilities(p_stat, p_fuzzy, stat_confidence,
                                                 fuzzy_confidence)]
    /\ UNCHANGED runVars
    /\ UNCHANGED svcVars

NextCombine == CallCombine

SpecCombine == InitIdle /\ [][NextCombine]_vars

\* The confidence-weighted sums of the last call, not yet divided by the sum
\* of the confidences (both taken as 0.5 when that sum is 0).
CallWeighted ==
    LET zero == (call.stat_confidence + call.fuzzy_confidence = 0)
        cs == IF zero THEN 5000 ELSE call.stat_confidence
        cf == IF zero THEN 5000 ELSE call.fuzzy_confidence
    IN  [i \in 1..3 |-> cs * call.p_stat[i] + cf * call.p_fuzzy[i]]

CallWeightedTotal == CallWeighted[1] + CallWeighted[2] + CallWeighted[3]

\* C13: for triples with components in [0, 1] and non-negative confidences,
\* combine_probabilities returns three components in [0, 1] that sum to 1 and
\* are the confidence-weighted sums divided by their total (1/3 each when the
\* total is not positive); combine((1,0,0), (0,1,0), 0.5, 0.5) = (0.5, 0.5, 0).
\* Equalities are to within two units of the fourth decimal.
C13_CombineNormalized ==
    call.fn = "combine_probabilities" =>
        /\ \A i \in 1..3 : 0 <= call.ret[i] /\ call.ret[i] <= S
        /\ Abs(call.ret[1] + call.ret[2] + call.ret[3] - S) <= 2
        /\ \A i \in 1..3 :
              IF CallWeightedTotal > 0
              THEN Abs(call.ret[i] - MulDivQR(CallWeighted[i], S, CallWeightedTotal)[1]) <= 2
              ELSE Abs(call.ret[i] - (S \div 3)) <= 2
        /\ (/\ call.p_stat = <<S, 0, 0>> /\ call.p_fuzzy = <<0, S, 0>>
            /\ call.stat_confidence = 5000 /\ call.fuzzy_confidence = 5000)
           => call.ret = <<5000, 5000, 0>>

\* A call with unequal confidences on triples that do not sum to 1, whose
\* three results are all positive and differ.
C13_Witness ==
    /\ call.fn = "combine_probabilities"
    /\ call.stat_confidence = 2500
    /\ call.fuzzy_confidence = 5000
    /\ call.p_stat = <<S, 2500, 0>>
    /\ call.p_fuzzy = <<S, 5000, 2500>>
    /\ call.ret[1] > call.ret[2]
    /\ call.ret[2] > call.ret[3]
    /\ call.ret[3] > 0

(***************************************************************************)
(* run_backtest called twice on the same dataset                            *)
(***************************************************************************)

\* initial_bankroll: 0.0, 100.004 and the default 7000.0
Bankrolls == {0, 1000040, 7000 * S}

InitAnyBankroll ==
    /\ rows \in Datasets
    /\ idx = 1
    /\ initial_bankroll \in Bankrolls
    /\ bankroll = initial_bankroll
    /\ equity_curve = <<bankroll>>
    /\ total_bets = 0
    /\ winning_bets = 0
    /\ status = "running"
    /\ exc = "none"
    /\ result = NoResult
    /\ last = NoLast
    /\ call = NoCall
    /\ ServiceIdle

FreshLocals_curve_kept(initial_) == Acc(initial_, Append(equity_curve, initial_), 0, 0)

\* bankroll = initial_bankroll; equity_curve = [bankroll]; total_bets = 0;
\* winning_bets = 0: the locals of a new call.
FreshLocals(initial_) == Acc(initial_, <<initial_>>, 0, 0)

\* The first call has ended; run_backtest is called again with the same
\* data_path and initial_bankroll, the file unchanged. `call` keeps how the
\* first call ended.
RunAgain ==
    /\ status \in {"returned", "raised"}
    /\ call = NoCall
    /\ call' = [fn |-> "run_backtest", status |-> status, exc |-> exc, ret |-> result]
    /\ LET a == FreshLocals(initial_bankroll)
       IN  /\ bankroll' = a.bankroll
           /\ equity_curve' = a.equity_curve
           /\ total_bets' = a.total_bets
           /\ winning_bets' = a.winning_bets
    /\ idx' = 1
    /\ status' = "running"
    /\ exc' = "none"
    /\ result' = NoResult
    /\ last' = NoLast
    /\ UNCHANGED <<rows, initial_bankroll>>
    /\ UNCHANGED svcVars

NextRerun == ProcessRow \/ ReturnResult \/ RunAgain

SpecRerun == InitAnyBankroll /\ [][NextRerun]_vars

\* The second call has ended.
SecondRunEnded == call.fn = "run_backtest" /\ status \in {"returned", "raised"}

\* C14: the second of two runs on the same dataset with the same initial
\* bankroll ends as the first did, with the same result: the same roi,
\* total_bets, winning_bets, losing_bets, equity_curve and final_bankroll.
C14_RerunIdentical ==
    SecondRunEnded =>
        /\ status = call.status
        /\ exc = call.exc
        /\ result = call.ret

\* Two runs over three rows have both returned a result.
C14_Witness ==
    /\ SecondRunEnded
    /\ status = "returned"
    /\ call.status = "returned"
    /\ Len(rows) = 3
    /\ result.equity_curve = <<7000 * S>>

\* C15 as stated: a run that returns has placed no bet, its equity curve holds
\* the seed only and final_bankroll equals initial_bankroll.
C15_NoBetEver ==
    status = "returned" =>
        /\ result.total_bets = 0
        /\ result.winning_bets = 0
        /\ result.equity_curve = <<initial_bankroll>>
        /\ result.final_bankroll = initial_bankroll

\* C15 amended: a run that returns has placed no bet; its equity curve holds
\* the seed only and final_bankroll is the initial bankroll, both rounded to
\* 2 decimals as the result dict rounds them; roi and losing_bets are 0.
C15_NoBetEverRounded ==
    status = "returned" =>
        /\ result.total_bets = 0
        /\ result.winning_bets = 0
        /\ result.losing_bets = 0
        /\ result.roi = 0
        /\ result.equity_curve = <<Round2(initial_bankroll)>>
        /\ result.final_bankroll = Round2(initial_bankroll)
        /\ bankroll = initial_bankroll

\* A run from 100.004 over several rows has returned 100.0.
C15_Witness ==
    /\ status = "returned"
    /\ Len(rows) >= 2
    /\ initial_bankroll = 1000040
    /\ result.final_bankroll = 100 * S
    /\ result.total_bets = 0

(***************************************************************************)
(* app/core/backtester.py: run_backtest as one call                         *)
(***************************************************************************)

\* `for row in reader` from row i on: the accumulators when the reader is
\* exhausted, or the exception that left the loop.
RECURSIVE RunRows(_, _, _)
RunRows(data, i, acc) ==
    IF i > Len(data) THEN {[exc |-> "none", acc |-> acc]}
    ELSE UNION { IF o.ev = "raise" THEN {[exc |-> o.exc, acc |-> o.acc]}
                 ELSE RunRows(data, i + 1, o.acc)
                 : o \in LoopBody(data[i], acc) }

\* open(data_path, 'r', encoding='utf-8')
OpenDataset(fs, data_path) ==
    IF data_path \in DOMAIN fs THEN Ok(fs[data_path]) ELSE Raise("FileNotFoundError")

\* How a call of run_backtest ended: it returned a dict, it returned None, or
\* it raised; `opens` counts the open() calls it made.
Ended(kind, e, v, opens) == [kind |-> kind, exc |-> e, v |-> v, opens |-> opens]

\* run_backtest(data_path, initial_bankroll) on the files `fs`. A missing file
\* is caught by `except FileNotFoundError`, whose handler prints and falls off
\* the end of the function; a file that is not UTF-8 text fails in the `for`
\* statement, outside the row's own try.
run_backtest(fs, data_path, initial_) ==
    LET f == OpenDataset(fs, data_path)
    IN  IF f.exc = "FileNotFoundError" THEN {Ended("None", "none", NoResult, 1)}
        ELSE IF f.v.kind = "binary"
             THEN {Ended("raise", "UnicodeDecodeError", NoResult, 1)}
        ELSE { IF r.exc = "none"
               THEN Ended("dict", "none", BacktestResult(r.acc, initial_), 1)
               ELSE Ended("raise", r.exc, NoResult, 1)
               : r \in RunRows(f.v.rows, 1, Acc(initial_, <<initial_>>, 0, 0)) }

(***************************************************************************)
(* app/main.py: POST /upload-data and POST /backtest                        *)
(***************************************************************************)

Response(code, detail, body, opens) ==
    [status |-> code, detail |-> detail, body |-> body, opens |-> opens]

backtest_response_empty_result(ret) ==
    CASE ret.kind = "dict" -> Response(200, "none", ret.v, ret.opens)
      [] ret.kind = "None" ->
            Response(200, "none",
                     [roi |-> 0, total_bets |-> 0, winning_bets |-> 0, losing_bets |-> 0,
                      equity_curve |-> <<>>, final_bankroll |-> 0], ret.opens)
      [] OTHER -> Response(500, "Backtest error", NoResult, ret.opens)

\* The try block of the handler on what run_backtest gave it: result["roi"]
\* on None is a TypeError, and every exception is answered with status 500.
backtest_response(ret) ==
    CASE ret.kind = "dict" -> Response(200, "none", ret.v, ret.opens)
      [] ret.kind = "None" -> Response(500, "Backtest error", NoResult, ret.opens)
      [] OTHER -> Response(500, "Backtest error", NoResult, ret.opens)

\* POST /backtest with the global `uploaded` and the files `fs`.
backtest(uploaded, fs) ==
    IF uploaded = NoPath THEN {Response(400, "No data uploaded", NoResult, 0)}
    ELSE {backtest_response(ret) : ret \in run_backtest(fs, uploaded, DefaultBankroll)}

\* c.isalnum() or c in ('-', '_', '.'), over the characters of the model.
KeptChar(c) == c \in {"a", "b", "c", "s", "t", "v", "x", "-", "_", "."}

\* file.filename.endswith('.csv')
EndsWithCsv(filename) ==
    /\ Len(filename) >= 4
    /\ SubSeq(filename, Len(filename) - 3, Len(filename)) = <<".", "c", "s", "v">>

safe_filename(filename) == SelectSeq(filename, KeptChar)

\* os.path.join("data", safe_filename)
file_path(filename) == <<"data", "/">> \o safe_filename(filename)

\* max_size = 50 * 1024 * 1024
max_size == 50 * 1024 * 1024

\* csv.DictReader(f).fieldnames is None: only a file with no line at all.
FieldnamesIsNone(content) == content.size = 0

\* What upload_data does once file.read() has returned: the files, the global
\* and the response it leaves.
Uploaded(fs, uploaded, code, detail) ==
    [files |-> fs, uploaded_data |-> uploaded, response |-> Response(code, detail, NoResult, 0)]

\* The file is written before it is read back to be validated, so a refusal
\* after the write leaves the new content at `path`.
upload_data(fs, uploaded, request) ==
    LET content == request.content
        path == file_path(request.filename)
        written == (path :> content) @@ fs
    IN  IF content.size > max_size THEN Uploaded(fs, uploaded, 413, "File too large")
        ELSE IF content.size = 0 THEN Uploaded(fs, uploaded, 400, "File is empty")
        ELSE IF content.kind = "binary" THEN Uploaded(written, uploaded, 500, "Upload error")
        ELSE IF FieldnamesIsNone(content) THEN Uploaded(written, uploaded, 400, "Invalid CSV format")
        ELSE Uploaded(written, path, 200, "File uploaded successfully")

\* The uploads of the model: a.csv, "a .csv" (sanitized to a.csv), b.csv, a.txt.
Filenames ==
    { <<"a", ".", "c", "s", "v">>, <<"a", " ", ".", "c", "s", "v">>,
      <<"b", ".", "c", "s", "v">>, <<"a", ".", "t", "x", "t">> }

Csv(data) == [kind |-> "csv", size |-> 100 * (1 + Len(data)), rows |-> data]

\* An empty file, one over the size limit, bytes that are not UTF-8, and two
\* CSV files: one whose backtest returns and one whose backtest raises.
Contents ==
    { [kind |-> "csv", size |-> 0, rows |-> <<>>],
      [kind |-> "csv", size |-> max_size + 1, rows |-> <<FixtureRow>>],
      [kind |-> "binary", size |-> 3, rows |-> <<>>],
      Csv(<<FixtureRow, BadRateRow>>),
      Csv(<<LowOddsRow>>) }

\* upload_data up to `content = await file.read()`: the extension check, the
\* directory and the sanitized path.
UploadBegin(c) ==
    /\ pending[c] = NoRequest
    /\ \E filename \in Filenames, content \in Contents :
          IF EndsWithCsv(filename)
          THEN /\ pending' = [pending EXCEPT ![c] = [filename |-> filename, content |-> content]]
               /\ call' = [fn |-> "upload_begin", response |-> Response(0, "none", NoResult, 0)]
          ELSE /\ pending' = pending
               /\ call' = [fn |-> "upload_data",
                           response |-> Response(400, "Only CSV files are supported", NoResult, 0)]
    /\ UNCHANGED <<runVars, uploaded_data, files, last_upload>>

\* upload_data from the return of file.read() to its response.
UploadFinish(c) ==
    /\ pending[c] # NoRequest
    /\ LET u == upload_data(files, uploaded_data, pending[c])
       IN  /\ files' = u.files
           /\ uploaded_data' = u.uploaded_data
           /\ last_upload' = IF u.response.status = 200 THEN pending[c].content ELSE last_upload
           /\ call' = [fn |-> "upload_data", response |-> u.response]
    /\ pending' = [pending EXCEPT ![c] = NoRequest]
    /\ UNCHANGED runVars

\* POST /backtest: run_backtest has no await in it, so the handler is one step.
Backtest ==
    /\ \E response \in backtest(uploaded_data, files) :
          call' = [fn |-> "backtest", response |-> response]
    /\ UNCHANGED <<runVars, svcVars>>

\* Outside the service: a file of the data directory is removed.
RemoveDataset ==
    /\ \E path \in DOMAIN files :
          files' = [q \in (DOMAIN files) \ {path} |-> files[q]]
    /\ call' = [fn |-> "remove", response |-> Response(0, "none", NoResult, 0)]
    /\ UNCHANGED <<runVars, uploaded_data, pending, last_upload>>

NextService == (\E c \in Callers : UploadBegin(c)) \/ (\E c \in Callers : UploadFinish(c)) \/ Backtest

SpecService == InitIdle /\ [][NextService]_vars

NextServiceEnv == NextService \/ RemoveDataset

SpecServiceEnv == InitIdle /\ [][NextServiceEnv]_vars

\* The last request was a backtest and the file `uploaded_data` names was gone.
SourceNotFound ==
    /\ call.fn = "backtest"
    /\ uploaded_data # NoPath
    /\ uploaded_data \notin DOMAIN files

\* C11: when the dataset is not found the backtest request ends in a failure
\* reported to the caller, never in a successful BacktestResult, and the
\* dataset was opened once only.
C11_SourceNotFoundIsTerminal ==
    SourceNotFound =>
        /\ call.response.status = 500
        /\ call.response.body = NoResult
        /\ call.response.opens = 1

\* A backtest has been answered with status 500 after the uploaded file was removed.
C11_Witness ==
    /\ SourceNotFound
    /\ call.response.status = 500
    /\ last_upload.kind = "csv"

\* The last request was a backtest: it was refused for want of data if no
\* upload had been accepted, and otherwise answered as a backtest of the
\* content of the most recent accepted upload is answered.
BacktestServesLatestUpload ==
    call.fn = "backtest" =>
        IF last_upload.kind = "none"
        THEN call.response.status = 400 /\ call.response.detail = "No data uploaded"
        ELSE call.response \in backtest(uploaded_data, (uploaded_data :> last_upload))

\* An upload request has just been refused.
UploadRejected == call'.fn = "upload_data" /\ call'.response.status # 200

\* The refused upload left the global and the file it names as they were.
DatasetUntouched ==
    /\ uploaded_data' = uploaded_data
    /\ uploaded_data # NoPath =>
          /\ uploaded_data \in DOMAIN files'
          /\ files'[uploaded_data] = files[uploaded_data]

\* C17: under every interleaving of upload and backtest requests, a backtest
\* is refused with the no-data error while no upload has been accepted and
\* otherwise runs on the content of the most recent accepted upload, and a
\* refused upload changes neither the global nor the content a later
\* backtest reads.
C17_BacktestReadsLatestUpload ==
    /\ []BacktestServesLatestUpload
    /\ [][UploadRejected => DatasetUntouched]_vars

====
